---- MODULE Spec2Model ----
(***************************************************************************)
(* Model of etl_pipeline.py: the star-schema builder (create_star_schema), *)
(* the sink adapter (deploy_to_database) and the driver (main).            *)
(*                                                                         *)
(* A DataFrame is a record                                                 *)
(*   [columns |-> sequence of column names,                                *)
(*    index   |-> sequence of row labels,                                  *)
(*    rows    |-> sequence of functions column -> cell,                    *)
(*    datetimelike |-> whether column issue_d has a datetime dtype].       *)
(* DataFrames are objects: they live in `heap` and variables hold          *)
(* references (positions in heap; 0 is None), so that in-place column      *)
(* assignment through one name is visible through every alias.             *)
(***************************************************************************)
EXTENDS Integers, Sequences, FiniteSets, TLC

VARIABLES
    pc,            \* position of the control flow
    deploy_mode,   \* main: '--deploy' in sys.argv
    heap,          \* the DataFrame objects allocated so far
    df,            \* main: reference to the loaded table
    df_clean,      \* main: reference to the cleaner's result
    df_filtered,   \* main: reference to the filter's result
    df_final,      \* main: reference to the builder's input
    fact_table,    \* reference to the fact table returned by the builder
    dim_tables,    \* dict name -> reference, in insertion order
    sink,          \* the database: table name -> what it holds
    todo,          \* deploy_to_database: the writes still to be made
    deployed,      \* what deploy_to_database returned: "None" before
    success,       \* what main returned: "None" while it runs
    error,         \* the stage whose exception main caught, "" if none
    trace          \* the stages entered so far, in order

vars == <<pc, deploy_mode, heap, df, df_clean, df_filtered, df_final,
          fact_table, dim_tables, sink, todo, deployed, success, error, trace>>

----------------------------------------------------------------------------
(* Bounds *)

\* rows of an input handed to create_star_schema directly
MaxRows == 3

\* rows of the file main loads
MaxRawRows == 4

----------------------------------------------------------------------------
(* pandas primitives *)

\* The missing cell of a numeric column: what Series.map writes for a value
\* its mapping lacks (surrogate keys start at 1, so 0 is never a key).
NaN == 0

\* The missing cell of a text column as read from the file.
NA == "nan"

Range(s) == {s[i] : i \in 1..Len(s)}

Contains(s, x) == \E i \in 1..Len(s) : s[i] = x

\* Index.__add__: index + 1, element-wise
IndexPlusOne(idx) == [i \in 1..Len(idx) |-> idx[i] + 1]

\* RangeIndex(n): the labels 0..n-1
RangeIndex(n) == [i \in 1..n |-> i - 1]

\* df[[c]]: the one column as a Series (labels kept)
Column(f, c) == [index |-> f.index, values |-> [i \in 1..Len(f.rows) |-> f.rows[i][c]]]

\* Mutant of DropDuplicates: keep='last' instead of the default keep='first'.
DropDuplicatesKeepLast(s) ==
    LET keep == {i \in 1..Len(s.values) :
                    \A j \in (i+1)..Len(s.values) : s.values[j] # s.values[i]}
        pos[k \in 0..Len(s.values)] ==
            IF k = 0 THEN <<>>
            ELSE IF k \in keep THEN Append(pos[k-1], k) ELSE pos[k-1]
        p == pos[Len(s.values)]
    IN  [index |-> [i \in 1..Len(p) |-> s.index[p[i]]],
         values |-> [i \in 1..Len(p) |-> s.values[p[i]]]]

\* DataFrame.drop_duplicates(): keep the first occurrence of every value, in
\* row order, with the labels of the kept rows.
DropDuplicates(s) ==
    LET keep == {i \in 1..Len(s.values) :
                    \A j \in 1..(i-1) : s.values[j] # s.values[i]}
        pos[k \in 0..Len(s.values)] ==
            IF k = 0 THEN <<>>
            ELSE IF k \in keep THEN Append(pos[k-1], k) ELSE pos[k-1]
        p == pos[Len(s.values)]
    IN  [index |-> [i \in 1..Len(p) |-> s.index[p[i]]],
         values |-> [i \in 1..Len(p) |-> s.values[p[i]]]]

\* Mutant of ResetIndex: the labels of the kept rows are left as they were.
ResetIndexMissing(s) == s

\* Series.reset_index(drop=True): the labels become 0..n-1
ResetIndex(s) == [s EXCEPT !.index = RangeIndex(Len(s.values))]

\* Mutant of ResetIndexFrame: the labels of the input are left on the table.
ResetIndexFrameMissing(f) == f

\* DataFrame.reset_index(drop=True): the labels become 0..n-1
ResetIndexFrame(f) == [f EXCEPT !.index = RangeIndex(Len(f.rows))]

\* dim.set_index(src)[key].to_dict(): value -> key; a later row wins
ToDict(values, keys) ==
    [v \in Range(values) |->
        keys[CHOOSE i \in 1..Len(values) :
                /\ values[i] = v
                /\ \A j \in (i+1)..Len(values) : values[j] # v]]

\* Series.map(dict): a value the dict lacks becomes NaN; labels kept
Map(s, d) ==
    [index |-> s.index,
     values |-> [i \in 1..Len(s.values) |->
                    IF s.values[i] \in DOMAIN d THEN d[s.values[i]] ELSE NaN]]

\* The value a Series holds at a label (labels are unique), NaN if none
AtLabel(s, l) ==
    IF Contains(s.index, l)
    THEN s.values[CHOOSE i \in 1..Len(s.index) : s.index[i] = l]
    ELSE NaN

AddColumn(cols, c) == IF Contains(cols, c) THEN cols ELSE Append(cols, c)

\* Mutant of SetItemSeries: the values are written by position into the
\* frame as if its labels were 0..n-1 (no alignment on the frame's labels).
SetItemSeriesByPosition(f, c, s) ==
    [f EXCEPT !.columns = AddColumn(f.columns, c),
              !.rows = [i \in 1..Len(f.rows) |->
                          [k \in DOMAIN f.rows[i] \cup {c} |->
                              IF k = c THEN AtLabel(s, i - 1) ELSE f.rows[i][k]]]]

\* frame[c] = Series: aligned on the row labels
SetItemSeries(f, c, s) ==
    [f EXCEPT !.columns = AddColumn(f.columns, c),
              !.rows = [i \in 1..Len(f.rows) |->
                          [k \in DOMAIN f.rows[i] \cup {c} |->
                              IF k = c THEN AtLabel(s, f.index[i]) ELSE f.rows[i][k]]]]

\* frame[c] = array: written by position
SetItemArray(f, c, a) ==
    [f EXCEPT !.columns = AddColumn(f.columns, c),
              !.rows = [i \in 1..Len(f.rows) |->
                          [k \in DOMAIN f.rows[i] \cup {c} |->
                              IF k = c THEN a[i] ELSE f.rows[i][k]]]]

\* frame[list of columns]: a new frame with these columns, labels kept
Project(f, cols) ==
    [columns |-> cols,
     index |-> f.index,
     rows |-> [i \in 1..Len(f.rows) |-> [k \in Range(cols) |-> f.rows[i][k]]],
     datetimelike |-> f.datetimelike /\ Contains(cols, "issue_d")]

\* A one-column frame from a Series
ToFrame(s, c, dt) ==
    [columns |-> <<c>>,
     index |-> s.index,
     rows |-> [i \in 1..Len(s.values) |-> [k \in {c} |-> s.values[i]]],
     datetimelike |-> dt]

----------------------------------------------------------------------------
(* Dates.  A datetime cell is written "YYYY-MM". *)

Dates == {"2015-12", "2016-03"}

dt_year(d) == IF d = "2015-12" THEN 2015 ELSE 2016
dt_month(d) == IF d = "2015-12" THEN 12 ELSE 3
dt_quarter(d) == ((dt_month(d) - 1) \div 3) + 1

----------------------------------------------------------------------------
(* create_star_schema *)

\* Mutant of df_copy: fact_data is bound to the caller's object, not a copy.
df_alias(h, ref) == [heap |-> h, ref |-> ref]

\* fact_data = df.copy(): a new object with the same content
df_copy(h, ref) == [heap |-> Append(h, h[ref]), ref |-> Len(h) + 1]

\* issue_d_dim['month'/'year'/'quarter'] = issue_d_dim['issue_d'].dt.<part>
DateAttributes(dim) ==
    LET col == Column(dim, "issue_d")
        part(Op(_)) == [index |-> col.index,
                        values |-> [i \in 1..Len(col.values) |-> Op(col.values[i])]]
    IN  SetItemSeries(
            SetItemSeries(
                SetItemSeries(dim, "month", part(dt_month)),
                "year", part(dt_year)),
            "quarter", part(dt_quarter))

\* One dimension block of create_star_schema: st is the function's local
\* state [heap, fact_data, dim_tables, raised], df the argument.
Dimension(st, dfref, src, key, name) ==
    IF st.raised \/ ~Contains(st.heap[dfref].columns, src) THEN st
    ELSE
    LET f == st.heap[dfref]
        dedup == ResetIndex(DropDuplicates(Column(f, src)))
        dim0 == SetItemArray(ToFrame(dedup, src, f.datetimelike /\ src = "issue_d"),
                             key, IndexPlusOne(dedup.index))
    IN  IF src = "issue_d" /\ ~f.datetimelike
        THEN \* .dt on a column that is not datetimelike: AttributeError
             [st EXCEPT !.heap = Append(st.heap, dim0), !.raised = TRUE]
        ELSE
        LET dim == IF src = "issue_d" THEN DateAttributes(dim0) ELSE dim0
            h1 == Append(st.heap, dim)
            map == ToDict(Column(dim, src).values, Column(dim, key).values)
            fk == Map(Column(h1[st.fact_data], src), map)
        IN  [heap |-> [h1 EXCEPT ![st.fact_data] = SetItemSeries(@, key, fk)],
             fact_data |-> st.fact_data,
             dim_tables |-> Append(st.dim_tables, [name |-> name, ref |-> Len(h1)]),
             raised |-> FALSE]

fact_columns == <<"loan_amnt", "funded_amnt", "term", "int_rate", "installment",
                  "home_ownership_id", "loan_status_id", "issue_d_id">>

\* Mutant of FactTable: the projected rows are de-duplicated.
FactTableDistinct(f) ==
    LET InFrame(c) == Contains(f.columns, c)
        p == Project(f, SelectSeq(fact_columns, InFrame))
        keep == {i \in 1..Len(p.rows) : \A j \in 1..(i-1) : p.rows[j] # p.rows[i]}
        pos[k \in 0..Len(p.rows)] ==
            IF k = 0 THEN <<>>
            ELSE IF k \in keep THEN Append(pos[k-1], k) ELSE pos[k-1]
        q == pos[Len(p.rows)]
        t == [p EXCEPT !.rows = [i \in 1..Len(q) |-> p.rows[q[i]]],
                       !.index = RangeIndex(Len(q))]
    IN  SetItemArray(t, "fact_id", IndexPlusOne(t.index))

\* Lines 58-64: project fact_data to the whitelist, renumber, add fact_id
FactTable(f) ==
    LET InFrame(c) == Contains(f.columns, c)
        available_columns == SelectSeq(fact_columns, InFrame)
        t == ResetIndexFrame(Project(f, available_columns))
    IN  SetItemArray(t, "fact_id", IndexPlusOne(t.index))

\* create_star_schema(df) on heap h: the heap afterwards, the two results
\* (references), and whether the call raised.
create_star_schema(h, dfref) ==
    LET c == df_copy(h, dfref)
        s0 == [heap |-> c.heap, fact_data |-> c.ref, dim_tables |-> <<>>,
               raised |-> FALSE]
        s1 == Dimension(s0, dfref, "home_ownership", "home_ownership_id",
                        "dim_home_ownership")
        s2 == Dimension(s1, dfref, "loan_status", "loan_status_id",
                        "dim_loan_status")
        s3 == Dimension(s2, dfref, "issue_d", "issue_d_id", "dim_issue_date")
    IN  IF s3.raised
        THEN [heap |-> s3.heap, fact_table |-> 0, dim_tables |-> <<>>,
              raised |-> TRUE]
        ELSE [heap |-> Append(s3.heap, FactTable(s3.heap[s3.fact_data])),
              fact_table |-> Len(s3.heap) + 1,
              dim_tables |-> s3.dim_tables,
              raised |-> FALSE]

----------------------------------------------------------------------------
(* The helpers main imports: functions/clean_missing_values.py and         *)
(* functions/filter_issue_date_range.py, as the design document describes  *)
(* them.                                                                   *)

max_null_percentage == 30

IsNull(v) == v = NA

\* The positions of 1..n that are in keep, in order
Positions(n, keep) ==
    LET pos[k \in 0..n] ==
            IF k = 0 THEN <<>>
            ELSE IF k \in keep THEN Append(pos[k-1], k) ELSE pos[k-1]
    IN  pos[n]

\* The rows at the given positions, with their labels
TakeRows(f, p) ==
    [f EXCEPT !.index = [i \in 1..Len(p) |-> f.index[p[i]]],
              !.rows = [i \in 1..Len(p) |-> f.rows[p[i]]]]

\* DataFrame.dropna(): the rows without any missing cell, labels kept
dropna(f) ==
    LET complete == {i \in 1..Len(f.rows) :
                        \A c \in Range(f.columns) : ~IsNull(f.rows[i][c])}
    IN  TakeRows(f, Positions(Len(f.rows), complete))

\* clean_missing_values(df, max_null_percentage): drop every column whose
\* share of missing cells exceeds the threshold, then every row that still
\* has a missing cell.
clean_missing_values(f, threshold) ==
    LET n == Len(f.rows)
        nulls(c) == Cardinality({i \in 1..n : IsNull(f.rows[i][c])})
        Kept(c) == n = 0 \/ nulls(c) * 100 <= threshold * n
    IN  dropna(Project(f, SelectSeq(f.columns, Kept)))

\* Parsing the file's date text; "NaT" when it is no date
to_datetime(v) ==
    IF v = "Dec-2015" THEN "2015-12"
    ELSE IF v = "Mar-2016" THEN "2016-03"
    ELSE "NaT"

\* The fixed acceptance window of the filter
Window == {"2016-03"}

\* filter_issue_date_range(df): the rows whose issue_d parses to a date in
\* the window.  Whether the result carries the parsed dates (parsed = TRUE)
\* or the file's text is not fixed by the description: both are modelled.
filter_issue_date_range(f, parsed) ==
    LET inWindow == {i \in 1..Len(f.rows) :
                        to_datetime(f.rows[i]["issue_d"]) \in Window}
        g == TakeRows(f, Positions(Len(f.rows), inWindow))
    IN  IF parsed
        THEN [g EXCEPT !.datetimelike = TRUE,
                       !.rows = [i \in 1..Len(g.rows) |->
                                   [g.rows[i] EXCEPT !["issue_d"] = to_datetime(@)]]]
        ELSE g

----------------------------------------------------------------------------
(* Inputs *)

\* The columns of s that are in set S, in the order of s
Restrict(s, S) == LET In(c) == c \in S IN SelectSeq(s, In)

\* The cells a column can hold: in the file main loads (kind "raw"), and in
\* a table handed to create_star_schema (kind "datetime": issue_d holds
\* dates, as its .dt accesses require).
Cells(kind, c) ==
    CASE c = "loan_amnt" -> IF kind = "raw" THEN {"1000", NA} ELSE {"1000", "2000"}
      [] c = "home_ownership" -> IF kind = "raw" THEN {"RENT"} ELSE {"RENT", "OWN"}
      [] c = "loan_status" -> {"Fully Paid"}
      [] c = "issue_d" -> IF kind = "raw" THEN {"Dec-2015", "Mar-2016"} ELSE Dates
      [] c = "home_ownership_id" -> {7}

\* All rows over the columns cols
RECURSIVE Rows(_, _)
Rows(kind, cols) ==
    IF cols = <<>> THEN {<<>>}
    ELSE {[k \in DOMAIN r \cup {Head(cols)} |-> IF k = Head(cols) THEN v ELSE r[k]] :
             r \in Rows(kind, Tail(cols)), v \in Cells(kind, Head(cols))}

\* The table of kind `kind` with columns cols, labels idx and rows r
Frame(kind, cols, idx, r) ==
    [columns |-> cols, index |-> idx, rows |-> r,
     datetimelike |-> kind = "datetime" /\ Contains(cols, "issue_d")]

RawColumns == <<"loan_amnt", "home_ownership", "issue_d">>

\* The labels left after rows 0 and 2 of a longer table were dropped
GappedIndex(n) == [i \in 1..n |-> IF i = 1 THEN 1 ELSE i + 1]

BuildColumns == <<"loan_amnt", "home_ownership", "loan_status", "issue_d",
                  "home_ownership_id">>

TableNames == {"dim_home_ownership", "dim_loan_status", "dim_issue_date", "fact_loans"}

----------------------------------------------------------------------------
(* main and deploy_to_database *)

\* The except clause of main: report, return False
Except(stage) ==
    /\ pc' = "exit"
    /\ success' = "False"
    /\ error' = stage

Enter(stage) == trace' = Append(trace, stage)

Init ==
    /\ pc = "guess_column_types"
    /\ deploy_mode \in BOOLEAN
    /\ heap = <<>>
    /\ df = 0 /\ df_clean = 0 /\ df_filtered = 0 /\ df_final = 0
    /\ fact_table = 0
    /\ dim_tables = <<>>
    /\ \E st \in {"absent", "old"} : sink = [t \in TableNames |-> [status |-> st, ref |-> 0]]
    /\ todo = <<>>
    /\ deployed = "None"
    /\ success = "None"
    /\ error = ""
    /\ trace = <<>>

\* success, column_types = guess_column_types(data_file); both are unused
Guess ==
    /\ pc = "guess_column_types"
    /\ Enter("guess_column_types")
    /\ \/ /\ pc' = "read_csv"
          /\ UNCHANGED <<success, error>>
       \/ Except("guess_column_types")
    /\ UNCHANGED <<deploy_mode, heap, df, df_clean, df_filtered, df_final,
                   fact_table, dim_tables, sink, todo, deployed>>

\* df = pd.read_csv(data_file, low_memory=False)
Load ==
    /\ pc = "read_csv"
    /\ Enter("read_csv")
    /\ \/ /\ \E S \in SUBSET Range(RawColumns), n \in 0..MaxRawRows :
                /\ "loan_amnt" \in S
                /\ \E r \in [1..n -> Rows("raw", Restrict(RawColumns, S))] :
                      heap' = Append(heap, Frame("raw", Restrict(RawColumns, S),
                                                 RangeIndex(n), r))
          /\ df' = Len(heap) + 1
          /\ pc' = "clean_missing_values"
          /\ UNCHANGED <<success, error>>
       \/ /\ Except("read_csv")
          /\ UNCHANGED <<heap, df>>
    /\ UNCHANGED <<deploy_mode, df_clean, df_filtered, df_final,
                   fact_table, dim_tables, sink, todo, deployed>>

\* df_clean = clean_missing_values(df, max_null_percentage=30)
Clean ==
    /\ pc = "clean_missing_values"
    /\ Enter("clean_missing_values")
    /\ \/ /\ heap' = Append(heap, clean_missing_values(heap[df], max_null_percentage))
          /\ df_clean' = Len(heap) + 1
          /\ pc' = "filter_issue_date_range"
          /\ UNCHANGED <<success, error>>
       \/ /\ Except("clean_missing_values")
          /\ UNCHANGED <<heap, df_clean>>
    /\ UNCHANGED <<deploy_mode, df, df_filtered, df_final,
                   fact_table, dim_tables, sink, todo, deployed>>

\* df_filtered = filter_issue_date_range(df_clean)
\*               if 'issue_d' in df_clean.columns else df_clean
Filter ==
    /\ pc = "filter_issue_date_range"
    /\ IF Contains(heap[df_clean].columns, "issue_d")
       THEN /\ Enter("filter_issue_date_range")
            /\ \/ /\ \E parsed \in BOOLEAN :
                        heap' = Append(heap, filter_issue_date_range(heap[df_clean], parsed))
                  /\ df_filtered' = Len(heap) + 1
                  /\ pc' = "dropna"
                  /\ UNCHANGED <<success, error>>
               \/ /\ Except("filter_issue_date_range")
                  /\ UNCHANGED <<heap, df_filtered>>
       ELSE /\ df_filtered' = df_clean
            /\ pc' = "dropna"
            /\ UNCHANGED <<heap, success, error, trace>>
    /\ UNCHANGED <<deploy_mode, df, df_clean, df_final,
                   fact_table, dim_tables, sink, todo, deployed>>

\* df_final = df_filtered.dropna()
DropNa ==
    /\ pc = "dropna"
    /\ Enter("dropna")
    /\ heap' = Append(heap, dropna(heap[df_filtered]))
    /\ df_final' = Len(heap) + 1
    /\ pc' = "create_star_schema"
    /\ UNCHANGED <<deploy_mode, df, df_clean, df_filtered,
                   fact_table, dim_tables, sink, todo, deployed, success, error>>

\* Mutant of deploy_requested: a run without the flag goes on to deploy.
deploy_always(flag) == TRUE

\* The test of `if deploy_mode:`
deploy_requested(flag) == flag

\* fact_table, dim_tables = create_star_schema(df_final); if deploy_mode: ...
Build ==
    /\ pc = "create_star_schema"
    /\ Enter("create_star_schema")
    /\ LET r == create_star_schema(heap, df_final)
       IN  /\ heap' = r.heap
           /\ IF r.raised
              THEN /\ Except("create_star_schema")
                   /\ UNCHANGED <<fact_table, dim_tables>>
              ELSE /\ fact_table' = r.fact_table
                   /\ dim_tables' = r.dim_tables
                   /\ IF deploy_requested(deploy_mode)
                      THEN pc' = "deploy_to_database" /\ success' = success
                      ELSE pc' = "exit" /\ success' = "True"
                   /\ error' = error
    /\ UNCHANGED <<deploy_mode, df, df_clean, df_filtered, df_final, sink, todo,
                   deployed>>

\* Mutant of main_deploy_result: the deploy's answer is ignored.
main_deploy_ignored(ok) == "True"

\* if deploy_to_database(...): return True; return False
main_deploy_result(ok) == IF ok = "True" THEN "True" ELSE "False"

\* The writes of deploy_to_database in order: dim_tables.items(), fact_loans
tables_to_write(dims, fact) ==
    dims \o <<[name |-> "fact_loans", ref |-> fact]>>

\* deploy_to_database up to create_engine; its except returns False
Connect ==
    /\ pc = "deploy_to_database"
    /\ Enter("deploy_to_database")
    /\ \/ /\ todo' = tables_to_write(dim_tables, fact_table)
          /\ pc' = "to_sql"
          /\ UNCHANGED <<deployed, success>>
       \/ /\ pc' = "exit"
          /\ deployed' = "False"
          /\ success' = main_deploy_result(deployed')
          /\ UNCHANGED todo
    /\ UNCHANGED <<deploy_mode, heap, df, df_clean, df_filtered, df_final,
                   fact_table, dim_tables, sink, error>>

\* Mutant of after_failed_write: the failure is swallowed and the loop goes on.
continue_after_failed_write(rest) == rest

\* A failed to_sql leaves the try block: nothing is left to write
after_failed_write(rest) == <<>>

\* One to_sql(name, if_exists='replace'): the table is replaced, or the write
\* fails, leaving the table as it was or half-written.
Write ==
    /\ pc = "to_sql"
    /\ todo # <<>>
    /\ LET t == Head(todo)
       IN  \/ /\ sink' = [sink EXCEPT ![t.name] = [status |-> "written", ref |-> t.ref]]
              /\ todo' = Tail(todo)
              /\ trace' = Append(trace, t.name)
              /\ UNCHANGED <<pc, deployed, success>>
           \/ /\ \E st \in {sink[t.name].status, "partial"} :
                     sink' = [sink EXCEPT ![t.name] = [status |-> st, ref |-> sink[t.name].ref]]
              /\ todo' = after_failed_write(Tail(todo))
              /\ IF todo' = <<>>
                 THEN /\ pc' = "exit"
                      /\ deployed' = "False"
                      /\ success' = main_deploy_result(deployed')
                 ELSE UNCHANGED <<pc, deployed, success>>
              /\ UNCHANGED trace
    /\ UNCHANGED <<deploy_mode, heap, df, df_clean, df_filtered, df_final,
                   fact_table, dim_tables, error>>

\* return True at the end of deploy_to_database
Deployed ==
    /\ pc = "to_sql"
    /\ todo = <<>>
    /\ pc' = "exit"
    /\ deployed' = "True"
    /\ success' = main_deploy_result(deployed')
    /\ UNCHANGED <<deploy_mode, heap, df, df_clean, df_filtered, df_final,
                   fact_table, dim_tables, sink, todo, error, trace>>

\* sys.exit(0 if success else 1)
exit_code == IF success = "True" THEN 0 ELSE 1

Next == Guess \/ Load \/ Clean \/ Filter \/ DropNa \/ Build \/ Connect \/ Write \/ Deployed

Spec == Init /\ [][Next]_vars

----------------------------------------------------------------------------
(* create_star_schema called on its own *)

InitBuild ==
    /\ pc = "call"
    /\ deploy_mode = FALSE
    /\ \E S \in SUBSET Range(BuildColumns), n \in 0..MaxRows :
          \E idx \in {RangeIndex(n), GappedIndex(n)},
             r \in [1..n -> Rows("datetime", Restrict(BuildColumns, S))] :
             heap = <<Frame("datetime", Restrict(BuildColumns, S), idx, r)>>
    /\ df = 0 /\ df_clean = 0 /\ df_filtered = 0 /\ df_final = 1
    /\ fact_table = 0
    /\ dim_tables = <<>>
    /\ sink = [t \in TableNames |-> [status |-> "absent", ref |-> 0]]
    /\ todo = <<>>
    /\ deployed = "None"
    /\ success = "None"
    /\ error = ""
    /\ trace = <<>>

\* fact_table, dim_tables = create_star_schema(df_final), from any caller
Call ==
    /\ pc = "call"
    /\ LET r == create_star_schema(heap, df_final)
       IN  /\ heap' = r.heap
           /\ fact_table' = r.fact_table
           /\ dim_tables' = r.dim_tables
           /\ pc' = IF r.raised THEN "raised" ELSE "returned"
    /\ UNCHANGED <<deploy_mode, df, df_clean, df_filtered, df_final, sink, todo,
                   deployed, success, error, trace>>

SpecBuild == InitBuild /\ [][Call]_vars

----------------------------------------------------------------------------
(* Properties of create_star_schema (checked under SpecBuild) *)

\* The three dimensions: source column, key column, registered name
DimSpecs ==
    {[src |-> "home_ownership", key |-> "home_ownership_id", name |-> "dim_home_ownership"],
     [src |-> "loan_status", key |-> "loan_status_id", name |-> "dim_loan_status"],
     [src |-> "issue_d", key |-> "issue_d_id", name |-> "dim_issue_date"]}

Input == heap[df_final]
Fact == heap[fact_table]
Registered(name) == \E i \in 1..Len(dim_tables) : dim_tables[i].name = name
DimRef(name) == dim_tables[CHOOSE i \in 1..Len(dim_tables) : dim_tables[i].name = name].ref
Dim(name) == heap[DimRef(name)]
DimOf(d) == heap[DimRef(d.name)]
Present(d) == Contains(Input.columns, d.src)

\* Position of the first occurrence of v in sequence s
FirstAt(s, v) == CHOOSE i \in 1..Len(s) : s[i] = v /\ \A j \in 1..(i-1) : s[j] # v

\* C1: every dimension table built for a present source column has exactly
\* one row per distinct value of that column, and its key column holds
\* exactly 1..N, once each, N being the number of distinct values.
Thm_C1 ==
    pc = "returned" =>
        \A d \in DimSpecs : Present(d) =>
            /\ Registered(d.name)
            /\ LET source == Column(Input, d.src).values
                   values == Column(DimOf(d), d.src).values
                   keys == Column(DimOf(d), d.key).values
                   N == Cardinality(Range(source))
               IN  /\ Len(values) = N
                   /\ Range(values) = Range(source)
                   /\ Len(keys) = N
                   /\ Range(keys) = 1..N

\* A call on three rows with labels 1,3,4 whose home_ownership column holds
\* a repeated value: two dimension rows from three input rows.
Wit_C1 ==
    /\ pc = "returned"
    /\ Input.index = GappedIndex(3)
    /\ Contains(Input.columns, "home_ownership")
    /\ Column(Input, "home_ownership").values = <<"OWN", "RENT", "OWN">>
    /\ Len(DimOf(CHOOSE d \in DimSpecs : d.src = "home_ownership").rows) = 2

\* C2: in every fact row, the foreign key of every present dimension is
\* resolved, is the key of exactly one row of that dimension, and that row
\* holds the value the input row has in the source column.
Thm_C2 ==
    pc = "returned" =>
        \A d \in DimSpecs : Present(d) =>
            /\ Len(Fact.rows) = Len(Input.rows)
            /\ \A i \in 1..Len(Fact.rows) :
                  /\ d.key \in DOMAIN Fact.rows[i]
                  /\ Fact.rows[i][d.key] # NaN
                  /\ Cardinality({k \in 1..Len(DimOf(d).rows) :
                         DimOf(d).rows[k][d.key] = Fact.rows[i][d.key]}) = 1
                  /\ \A k \in 1..Len(DimOf(d).rows) :
                         DimOf(d).rows[k][d.key] = Fact.rows[i][d.key]
                            => DimOf(d).rows[k][d.src] = Input.rows[i][d.src]

\* A call on rows labelled 1,3,4 with two dimensions of two values each.
Wit_C2 ==
    /\ pc = "returned"
    /\ Input.index = GappedIndex(3)
    /\ Contains(Input.columns, "home_ownership")
    /\ Contains(Input.columns, "issue_d")
    /\ Column(Input, "home_ownership").values = <<"RENT", "OWN", "OWN">>
    /\ Column(Input, "issue_d").values = <<"2016-03", "2016-03", "2015-12">>
    /\ Column(Fact, "home_ownership_id").values = <<1, 2, 2>>
    /\ Column(Fact, "issue_d_id").values = <<1, 1, 2>>

\* C3: the fact table has as many rows as the input, in the input's order
\* (row i carries the measures of input row i), labelled 0..n-1, and its
\* fact_id column reads 1, 2, ..., n.
Thm_C3 ==
    pc = "returned" =>
        /\ Len(Fact.rows) = Len(Input.rows)
        /\ Fact.index = RangeIndex(Len(Input.rows))
        /\ \A i \in 1..Len(Fact.rows) :
              /\ Fact.rows[i]["fact_id"] = i
              /\ Contains(Input.columns, "loan_amnt")
                    => Fact.rows[i]["loan_amnt"] = Input.rows[i]["loan_amnt"]

\* A call on three rows labelled 1,3,4 (rows were dropped upstream) with
\* differing measures.
Wit_C3 ==
    /\ pc = "returned"
    /\ Input.index = GappedIndex(3)
    /\ Contains(Input.columns, "loan_amnt")
    /\ Column(Input, "loan_amnt").values = <<"2000", "1000", "2000">>
    /\ Column(Fact, "fact_id").values = <<1, 2, 3>>

\* C5: keys follow first appearance: the dimension row with key k holds the
\* value whose first occurrence in the input is the k-th among the distinct
\* values; for the column [RENT, OWN, RENT] the dimension is RENT->1, OWN->2
\* and the fact foreign keys are [1, 2, 1].
Thm_C5 ==
    pc = "returned" =>
        /\ \A d \in DimSpecs : Present(d) =>
              LET source == Column(Input, d.src).values
                  dim == DimOf(d)
              IN  \A k \in 1..Len(dim.rows) :
                     /\ dim.rows[k][d.key] = k
                     /\ Cardinality({v \in Range(source) :
                            FirstAt(source, v) <= FirstAt(source, dim.rows[k][d.src])}) = k
        /\ (/\ Contains(Input.columns, "home_ownership")
            /\ Column(Input, "home_ownership").values = <<"RENT", "OWN", "RENT">>)
              => /\ Dim("dim_home_ownership").rows =
                        <<[home_ownership |-> "RENT", home_ownership_id |-> 1],
                          [home_ownership |-> "OWN", home_ownership_id |-> 2]>>
                 /\ Column(Fact, "home_ownership_id").values = <<1, 2, 1>>

\* The example of the design document: the column [RENT, OWN, RENT].
Wit_C5 ==
    /\ pc = "returned"
    /\ Input.columns = <<"home_ownership">>
    /\ Column(Input, "home_ownership").values = <<"RENT", "OWN", "RENT">>
    /\ Column(Fact, "home_ownership_id").values = <<1, 2, 1>>

\* C6: the call raises nothing, a dimension is registered exactly for the
\* present source columns, the fact table has a dimension's foreign-key
\* column exactly when that dimension's source column was present, and the
\* fact table's columns are among the whitelist plus fact_id.
Claim_C6 ==
    /\ pc # "raised"
    /\ pc = "returned" =>
          /\ \A d \in DimSpecs :
                /\ Registered(d.name) <=> Present(d)
                /\ Contains(Fact.columns, d.key) <=> Present(d)
          /\ \A i \in 1..Len(dim_tables) :
                \E d \in DimSpecs : d.name = dim_tables[i].name
          /\ Range(Fact.columns) \subseteq Range(fact_columns) \cup {"fact_id"}

\* C10: the call leaves the caller's table as it was: same columns, labels,
\* rows and cells.
Thm_C10 == [][pc = "call" => heap'[df_final] = heap[df_final]]_vars

\* A call that built all three dimensions and a fact table of three rows.
Wit_C10 ==
    /\ pc = "returned"
    /\ Len(dim_tables) = 3
    /\ Len(Input.rows) = 3
    /\ Len(Fact.rows) = 3
    /\ Input.index = GappedIndex(3)
    /\ ~Contains(Input.columns, "home_ownership_id")

----------------------------------------------------------------------------
(* Properties of main and deploy_to_database (checked under Spec) *)

\* The stages and writes of a run, in program order
StageOrder ==
    <<"guess_column_types", "read_csv", "clean_missing_values",
      "filter_issue_date_range", "dropna", "create_star_schema",
      "deploy_to_database", "dim_home_ownership", "dim_loan_status",
      "dim_issue_date", "fact_loans">>

StageNo(x) == CHOOSE i \in 1..Len(StageOrder) : StageOrder[i] = x

\* The stage returned normally: a later stage was entered or the run ended
\* without its exception
Completed(stage) == Contains(trace, stage) /\ error # stage

SinkTouched == \E t \in TableNames : sink[t].status \in {"written", "partial"}

CanGoOn ==
    \/ pc \in {"clean_missing_values", "filter_issue_date_range", "dropna",
               "create_star_schema"}
    \/ ENABLED (Guess \/ Load \/ Connect \/ Write \/ Deployed)

\* C7: at the exit, the code is 0 exactly when no stage raised and deploy
\* mode is off or the deploy reported success, and 1 otherwise; every run
\* that has not reached the exit can go on (nothing escapes main).
Thm_C7 ==
    /\ pc = "exit" =>
          /\ exit_code = 0 <=> (error = "" /\ (~deploy_mode \/ deployed = "True"))
          /\ exit_code = 1 <=> (error # "" \/ (deploy_mode /\ deployed # "True"))
    /\ pc # "exit" => CanGoOn

\* A deploying run whose second write failed: exit code 1, nothing raised.
Wit_C7 ==
    /\ pc = "exit"
    /\ deploy_mode
    /\ error = ""
    /\ deployed = "False"
    /\ sink["dim_home_ownership"].status = "written"
    /\ exit_code = 1

\* The writes deploy_to_database is to make, in order
Expected == dim_tables \o <<[name |-> "fact_loans", ref |-> fact_table]>>

WrittenBy(t) == sink[t.name] = [status |-> "written", ref |-> t.ref]

\* Once deploy_to_database has started: the replaced tables are a prefix of
\* dimensions-then-fact, the table after the prefix is at most half-written
\* and those behind it untouched; it returns True only with all written and
\* False without raising and with some table not written.
DeployInvariant ==
    Contains(trace, "deploy_to_database") =>
        /\ \E k \in 0..Len(Expected) :
              /\ \A i \in 1..k : WrittenBy(Expected[i])
              /\ \A i \in (k+1)..Len(Expected) :
                    sink[Expected[i].name].status # "written"
              /\ \A i \in (k+2)..Len(Expected) :
                    sink[Expected[i].name].status \in {"absent", "old"}
              /\ deployed = "True" => k = Len(Expected)
              /\ deployed = "False" => k < Len(Expected)
        /\ deployed = "False" => (error = "" /\ pc = "exit" /\ success = "False")
        /\ \A i, j \in 1..Len(trace) : trace[i] = trace[j] => i = j

\* A replaced table is never touched again (no rollback), and nothing is
\* written after a failed write (no retry, no later table).
DeployStep ==
    /\ \A t \in TableNames : sink[t].status = "written" => sink'[t] = sink[t]
    /\ (deployed = "False" \/ \E t \in TableNames : sink[t].status = "partial")
          => sink' = sink

\* C8: deploy_to_database writes the dimension tables in registration order
\* and then fact_loans, each replacing the table of that name; a failed
\* write makes it return False without raising, the tables written before
\* stay replaced and no later table is written, so fact_loans is written
\* only after every dimension table.
Thm_C8 == []DeployInvariant /\ [][DeployStep]_vars

\* The first dimension was replaced, the second write failed half-way, and
\* fact_loans still holds the old table.
Wit_C8 ==
    /\ pc = "exit"
    /\ deployed = "False"
    /\ Len(dim_tables) = 2
    /\ WrittenBy(dim_tables[1])
    /\ sink[dim_tables[2].name].status = "partial"
    /\ sink["fact_loans"] = [status |-> "old", ref |-> 0]

\* Stages are entered in program order, each at most once; a stage that
\* raised is the last one entered; the sink is touched only in a deploying
\* run in which every earlier stage returned.
ForwardInvariant ==
    /\ \A i, j \in 1..Len(trace) : i < j => StageNo(trace[i]) < StageNo(trace[j])
    /\ error # "" => (pc = "exit" /\ trace[Len(trace)] = error)
    /\ SinkTouched =>
          /\ deploy_mode
          /\ error = ""
          /\ \A stage \in {"guess_column_types", "read_csv", "clean_missing_values",
                           "dropna", "create_star_schema"} : Completed(stage)
          /\ Contains(heap[df_clean].columns, "issue_d")
                => Completed("filter_issue_date_range")
          /\ fact_table # 0
          /\ Contains(trace, "deploy_to_database")

\* C9: stages run strictly forward, a raising stage ends the run, the sink
\* is written only by a run with the deploy flag after type guessing, load,
\* clean, filter (when issue_d survives cleaning) and build all returned,
\* and a run without the flag never changes the sink.
Thm_C9 == []ForwardInvariant /\ [][~deploy_mode => sink' = sink]_vars

\* A deploying run that filtered, built and replaced fact_loans.
Wit_C9 ==
    /\ pc = "exit"
    /\ deploy_mode
    /\ Contains(trace, "filter_issue_date_range")
    /\ sink["fact_loans"].status = "written"
    /\ Len(heap[fact_table].rows) > 0

====
